---- MODULE Spec2Model ----
(***************************************************************************)
(* A model of the rustydag ledger node: the miner (chain/block.rs), the     *)
(* ledger and its fork choice (chain/node.rs) and the gossip handler        *)
(* (chain/p2p.rs).                                                          *)
(*                                                                          *)
(* Strings that the code converts (hashes, hex text, binary renderings) are *)
(* sequences of one-character strings; the opaque block payload `data` is a  *)
(* plain string.  SHA-256 is abstracted to a deterministic function into a  *)
(* finite table of three-byte digests;      everything built on the digest   *)
(* (hex encoding and decoding, the non-padded binary rendering, the prefix  *)
(* test) is computed as the code computes it.                               *)
(***************************************************************************)
EXTENDS Integers, Sequences, FiniteSets, TLC

VARIABLES blocks, ml_blocks, response_channel, inbox, status, sent, event

vars == <<blocks, ml_blocks, response_channel, inbox, status, sent, event>>

(***************************************************************************)
(* Bounds of the model.                                                     *)
(***************************************************************************)
\* Spec: the steps taken at the node (blocks mined, messages handled or sent)
MaxSteps == 2
\* NetSpec: the gossip messages the nodes publish between them
MaxPublished == 4
\* UnitSpec: the longest chain handed to a chain validator; fork choice is
\* handed chains one block shorter
MaxUnitLen == 3

(***************************************************************************)
(* Text: hex encoding and decoding (the hex crate), the binary rendering.   *)
(***************************************************************************)
HexDigits == <<"0", "1", "2", "3", "4", "5", "6", "7", "8", "9", "a", "b", "c", "d", "e", "f">>

UpperHexDigits == <<"A", "B", "C", "D", "E", "F">>

\* the value of one hex character, -1 when it is none (hex::decode takes both cases)
HexVal(c) ==
    IF \E i \in 1..16 : HexDigits[i] = c
    THEN (CHOOSE i \in 1..16 : HexDigits[i] = c) - 1
    ELSE IF \E i \in 1..6 : UpperHexDigits[i] = c
         THEN (CHOOSE i \in 1..6 : UpperHexDigits[i] = c) + 9
         ELSE -1

\* hex::encode: two lower-case characters per byte
RECURSIVE hex_encode(_)
hex_encode(bytes) ==
    IF bytes = <<>> THEN <<>>
    ELSE <<HexDigits[(Head(bytes) \div 16) + 1], HexDigits[(Head(bytes) % 16) + 1]>>
         \o hex_encode(Tail(bytes))

\* hex::decode: Err on an odd length or on a character that is no hex digit
HexDecodeOk(s) ==
    /\ Len(s) % 2 = 0
    /\ \A i \in 1..Len(s) : HexVal(s[i]) >= 0

hex_decode(s) ==
    [i \in 1..(Len(s) \div 2) |-> HexVal(s[2 * i - 1]) * 16 + HexVal(s[2 * i])]

\* format!("{:b}", c): the minimal binary digits of one byte, "0" for zero
RECURSIVE FormatBinary(_)
FormatBinary(c) ==
    IF c < 2 THEN <<HexDigits[c + 1]>>
    ELSE FormatBinary(c \div 2) \o <<HexDigits[(c % 2) + 1]>>

\* mutant: the digits of every byte are written least significant first
RECURSIVE hash_to_binary_representation_reversed(_)
hash_to_binary_representation_reversed(hash) ==
    IF hash = <<>> THEN <<>>
    ELSE LET digits == FormatBinary(Head(hash))
         IN  [i \in 1..Len(digits) |-> digits[Len(digits) + 1 - i]]
             \o hash_to_binary_representation_reversed(Tail(hash))

RECURSIVE hash_to_binary_representation(_)
hash_to_binary_representation(hash) ==
    IF hash = <<>> THEN <<>>
    ELSE FormatBinary(Head(hash)) \o hash_to_binary_representation(Tail(hash))

starts_with(s, prefix) ==
    /\ Len(s) >= Len(prefix)
    /\ SubSeq(s, 1, Len(prefix)) = prefix

GENERAL_DIFFICULTY_PREFIX == <<"0", "0">>

ML_DIFFICULTY_PREFIX == <<"0", "1">>

(***************************************************************************)
(* calculate_hash: SHA-256 of the JSON of {id, previous_hash, data,         *)
(* timestamp, nonce}, abstracted to a table of digests indexed by a mix of  *)
(* the five fields.                                                         *)
(***************************************************************************)
DigestTable ==
    << <<0, 0, 1>>,      \* "001"        general prefix
       <<1, 0, 0>>,      \* "100"        neither
       <<0, 1, 0>>,      \* "010"        ml prefix
       <<16, 0, 0>>,     \* "1000000"    neither
       <<0, 0, 171>>,    \* "0010101011" general prefix
       <<0, 16, 3>>,     \* "01000011"   ml prefix
       <<255, 0, 0>>,    \* "1111111100" neither
       <<0, 0, 2>> >>    \* "0010"       general prefix

\* the characters a string of the model can hold, for the mix
Alphabet == HexDigits \o UpperHexDigits \o <<"g", "n", "s", "i", "z">>

CharCode(c) == CHOOSE i \in 1..Len(Alphabet) : Alphabet[i] = c

RECURSIVE StrCode(_)
StrCode(s) ==
    IF s = <<>> THEN 0
    ELSE (CharCode(Head(s)) * Len(s) + StrCode(Tail(s))) % Len(DigestTable)

\* the payloads a block can carry
DataValues == <<"general_genesis!", "ml_genesis!", "a", "b">>

DataCode(d) == CHOOSE i \in 1..Len(DataValues) : DataValues[i] = d

calculate_hash(id, timestamp, previous_hash, data, nonce) ==
    DigestTable[((3 * id + 5 * timestamp + StrCode(previous_hash)
                  + 7 * DataCode(data) + nonce) % Len(DigestTable)) + 1]

(***************************************************************************)
(* Blocks and the genesis literals (Block, MlBlock share one shape).        *)
(***************************************************************************)
Block(id, hash, previous_hash, timestamp, data, nonce) ==
    [id |-> id, hash |-> hash, previous_hash |-> previous_hash,
     timestamp |-> timestamp, data |-> data, nonce |-> nonce]

GenesisPreviousHash == <<"g", "e", "n", "e", "s", "i", "s">>

\* the hash literal both genesis blocks carry
GenesisHash ==
    <<
       "0", "0", "0", "0", "f", "8", "1", "6", "a", "8", "7", "f", "8", "0", "6", "b",
       "b", "0", "0", "7", "3", "d", "c", "f", "0", "2", "6", "a", "6", "4", "f", "b",
       "4", "0", "c", "9", "4", "6", "b", "5", "a", "b", "e", "e", "2", "5", "7", "3",
       "7", "0", "2", "8", "2", "8", "6", "9", "4", "d", "5", "b", "4", "c", "4", "3" >>

GeneralGenesisNonce == 2836

MlGenesisNonce == 1836

\* the clock's value at startup
StartTime == 0

general_genesis ==
    Block(0, GenesisHash, GenesisPreviousHash, StartTime, "general_genesis!", GeneralGenesisNonce)

ml_genesis ==
    Block(0, GenesisHash, GenesisPreviousHash, StartTime, "ml_genesis!", MlGenesisNonce)

(***************************************************************************)
(* The miner: nonce 0, 1, 2, ... until the binary rendering of the digest   *)
(* starts with the chain's prefix.                                          *)
(***************************************************************************)
RECURSIVE MineFrom(_, _, _, _, _, _)
MineFrom(prefix, id, timestamp, previous_hash, data, nonce) ==
    LET hash == calculate_hash(id, timestamp, previous_hash, data, nonce)
        binary_hash == hash_to_binary_representation(hash)
    IN  IF starts_with(binary_hash, prefix)
        THEN [nonce |-> nonce, hash |-> hex_encode(hash)]
        ELSE MineFrom(prefix, id, timestamp, previous_hash, data, nonce + 1)

\* mutant: the search starts at nonce 1
mine_general_block_from_one(id, timestamp, previous_hash, data) ==
    MineFrom(GENERAL_DIFFICULTY_PREFIX, id, timestamp, previous_hash, data, 1)

mine_general_block(id, timestamp, previous_hash, data) ==
    MineFrom(GENERAL_DIFFICULTY_PREFIX, id, timestamp, previous_hash, data, 0)

mine_ml_block(id, timestamp, previous_hash, data) ==
    MineFrom(ML_DIFFICULTY_PREFIX, id, timestamp, previous_hash, data, 0)

\* `now` is the value Utc::now().timestamp() returns
new_general_block(id, previous_hash, data, now) ==
    LET mined == mine_general_block(id, now, previous_hash, data)
    IN  Block(id, mined.hash, previous_hash, now, data, mined.nonce)

new_ml_block(id, previous_hash, data, now) ==
    LET mined == mine_ml_block(id, now, previous_hash, data)
    IN  Block(id, mined.hash, previous_hash, now, data, mined.nonce)

(***************************************************************************)
(* Validation.  A validator answers "true" or "false", or it panics: the    *)
(* expect() on hex::decode ends the process.                                *)
(***************************************************************************)
is_general_block_valid(block, previous_block) ==
    IF block.previous_hash /= previous_block.hash THEN "false"
    ELSE IF ~HexDecodeOk(block.hash) THEN "panic"
    ELSE IF starts_with(hash_to_binary_representation(hex_decode(block.hash)),
                        GENERAL_DIFFICULTY_PREFIX) THEN "false"
    ELSE IF block.id /= previous_block.id + 1 THEN "false"
    ELSE IF hex_encode(calculate_hash(block.id, block.timestamp, block.previous_hash,
                                      block.data, block.nonce)) /= block.hash THEN "false"
    ELSE "true"

is_ml_block_valid(block, previous_block) ==
    IF block.previous_hash /= previous_block.hash THEN "false"
    ELSE IF ~HexDecodeOk(block.hash) THEN "panic"
    ELSE IF starts_with(hash_to_binary_representation(hex_decode(block.hash)),
                        ML_DIFFICULTY_PREFIX) THEN "false"
    ELSE IF block.id /= previous_block.id + 1 THEN "false"
    ELSE IF hex_encode(calculate_hash(block.id, block.timestamp, block.previous_hash,
                                      block.data, block.nonce)) /= block.hash THEN "false"
    ELSE "true"

\* the loop of is_general_chain_valid from index i (1-based; i = 1 is skipped)
RECURSIVE GeneralChainLoop(_, _)
GeneralChainLoop(chain, i) ==
    IF i > Len(chain) THEN "true"
    ELSE LET valid == is_general_block_valid(chain[i], chain[i - 1])
         IN  IF valid = "true" THEN GeneralChainLoop(chain, i + 1) ELSE valid

\* mutant: the loop starts one pair late
is_general_chain_valid_from_second(chain) == GeneralChainLoop(chain, 3)

is_general_chain_valid(chain) == GeneralChainLoop(chain, 2)

RECURSIVE MlChainLoop(_, _)
MlChainLoop(chain, i) ==
    IF i > Len(chain) THEN "true"
    ELSE LET valid == is_ml_block_valid(chain[i], chain[i - 1])
         IN  IF valid = "true" THEN MlChainLoop(chain, i + 1) ELSE valid

is_ml_chain_valid(chain) == MlChainLoop(chain, 2)

(***************************************************************************)
(* Fork choice.  A call either returns a chain or panics.                   *)
(***************************************************************************)
Returned(chain) == [outcome |-> "returned", chain |-> chain]

Panicked(message) == [outcome |-> "panicked", message |-> message]

choose_general_chain(local, remote) ==
    LET is_local_valid == is_general_chain_valid(local)
        is_remote_valid == is_general_chain_valid(remote)
    IN  IF is_local_valid = "panic" \/ is_remote_valid = "panic"
        THEN Panicked("can decode from hex")
        ELSE IF is_local_valid = "true" /\ is_remote_valid = "true"
        THEN (IF Len(local) >= Len(remote) THEN Returned(local) ELSE Returned(remote))
        ELSE IF is_remote_valid = "true" /\ is_local_valid /= "true"
        THEN Returned(remote)
        ELSE IF is_remote_valid /= "true" /\ is_local_valid = "true"
        THEN Returned(local)
        ELSE Panicked("local and remote general chains are both invalid")

\* mutant: falls back to the local chain when neither chain is valid
choose_ml_chain_keeps_local(local, remote) ==
    LET is_local_valid == is_ml_chain_valid(local)
        is_remote_valid == is_ml_chain_valid(remote)
    IN  IF is_local_valid = "panic" \/ is_remote_valid = "panic"
        THEN Panicked("can decode from hex")
        ELSE IF is_local_valid = "true" /\ is_remote_valid = "true"
        THEN (IF Len(local) >= Len(remote) THEN Returned(local) ELSE Returned(remote))
        ELSE IF is_remote_valid = "true" /\ is_local_valid /= "true"
        THEN Returned(remote)
        ELSE Returned(local)

choose_ml_chain(local, remote) ==
    LET is_local_valid == is_ml_chain_valid(local)
        is_remote_valid == is_ml_chain_valid(remote)
    IN  IF is_local_valid = "panic" \/ is_remote_valid = "panic"
        THEN Panicked("can decode from hex")
        ELSE IF is_local_valid = "true" /\ is_remote_valid = "true"
        THEN (IF Len(local) >= Len(remote) THEN Returned(local) ELSE Returned(remote))
        ELSE IF is_remote_valid = "true" /\ is_local_valid /= "true"
        THEN Returned(remote)
        ELSE IF is_remote_valid /= "true" /\ is_local_valid = "true"
        THEN Returned(local)
        ELSE Panicked("local and remote ML chains are both invalid")

(***************************************************************************)
(* try_add_*_block on a chain: the chain afterwards, or a panic.            *)
(***************************************************************************)
\* mutant: pushes the general block without validating it
try_add_general_block_unchecked(chain, block) ==
    IF chain = <<>> THEN Panicked("there is at least one block")
    ELSE Returned(Append(chain, block))

try_add_general_block(chain, block) ==
    IF chain = <<>> THEN Panicked("there is at least one block")
    ELSE LET valid == is_general_block_valid(block, chain[Len(chain)])
         IN  IF valid = "panic" THEN Panicked("can decode from hex")
             ELSE IF valid = "true" THEN Returned(Append(chain, block))
             ELSE Returned(chain)

\* mutant: pushes the block without validating it
try_add_ml_block_unchecked(chain, block) ==
    IF chain = <<>> THEN Panicked("there is at least one block")
    ELSE Returned(Append(chain, block))

try_add_ml_block(chain, block) ==
    IF chain = <<>> THEN Panicked("there is at least one block")
    ELSE LET valid == is_ml_block_valid(block, chain[Len(chain)])
         IN  IF valid = "panic" THEN Panicked("can decode from hex")
             ELSE IF valid = "true" THEN Returned(Append(chain, block))
             ELSE Returned(chain)

(***************************************************************************)
(* The nodes: for each, its two chains, the response channel to the outer   *)
(* loop, the gossip messages delivered to it and not yet handled, and       *)
(* whether the process still runs ("running", or the message of the panic   *)
(* that ended it).  `sent` counts the steps a specification bounds, and     *)
(* `event` records the last step taken and the state it started from.       *)
(***************************************************************************)
Peers == DOMAIN blocks

\* a peer outside the modelled nodes, the source of hand-made messages
Outsider == "x"

\* the payloads local mining is asked to embed
MineData == {"a"}

\* the values the clock (Utc::now) returns
Times == {0, 1}

\* the clock while the two nodes of NetSpec run
NetTimes == {1}

\* the state after startup: both genesis blocks pushed (node.rs 21-43)
Startup(peers) ==
    /\ blocks = [p \in peers |-> <<general_genesis>>]
    /\ ml_blocks = [p \in peers |-> <<ml_genesis>>]
    /\ response_channel = [p \in peers |-> <<>>]
    /\ inbox = [p \in peers |-> <<>>]
    /\ status = [p \in peers |-> "running"]
    /\ sent = 0
    /\ event = [op |-> "init"]

\* the node's state before a step, kept in `event`
Pre(p) ==
    [blocks |-> blocks[p], ml_blocks |-> ml_blocks[p],
     response_channel |-> response_channel[p]]

(***************************************************************************)
(* Wire encoding.  serde_json writes a struct as an object of its named     *)
(* fields, in declaration order: here a sequence of <<name, value>> pairs.  *)
(* Decoding as a struct succeeds when the object holds each field of the    *)
(* struct exactly once; members the struct does not have are skipped.       *)
(***************************************************************************)
block_to_json(block) ==
    << <<"id", block.id>>, <<"hash", block.hash>>,
       <<"previous_hash", block.previous_hash>>, <<"timestamp", block.timestamp>>,
       <<"data", block.data>>, <<"nonce", block.nonce>> >>

chain_to_json(chain) == [i \in 1..Len(chain) |-> block_to_json(chain[i])]

chain_response_to_json(resp) ==
    << <<"blocks", chain_to_json(resp.blocks)>>,
       <<"ml_blocks", chain_to_json(resp.ml_blocks)>>,
       <<"receiver", resp.receiver>> >>

local_chain_request_to_json(req) == << <<"from_peer_id", req.from_peer_id>> >>

HasOnce(data, name) == Cardinality({i \in 1..Len(data) : data[i][1] = name}) = 1

Member(data, name) == data[CHOOSE i \in 1..Len(data) : data[i][1] = name][2]

BlockFields == {"id", "hash", "previous_hash", "timestamp", "data", "nonce"}

DecodesAsBlock(data) == \A name \in BlockFields : HasOnce(data, name)

\* MlBlock has the fields of Block
DecodesAsMlBlock(data) == \A name \in BlockFields : HasOnce(data, name)

block_from_json(data) ==
    Block(Member(data, "id"), Member(data, "hash"), Member(data, "previous_hash"),
          Member(data, "timestamp"), Member(data, "data"), Member(data, "nonce"))

chain_from_json(array) == [i \in 1..Len(array) |-> block_from_json(array[i])]

DecodesAsChain(array) == \A i \in 1..Len(array) : DecodesAsBlock(array[i])

DecodesAsChainResponse(data) ==
    /\ \A name \in {"blocks", "ml_blocks", "receiver"} : HasOnce(data, name)
    /\ DecodesAsChain(Member(data, "blocks"))
    /\ DecodesAsChain(Member(data, "ml_blocks"))

ChainResponse(chain, ml_chain, receiver) ==
    [blocks |-> chain, ml_blocks |-> ml_chain, receiver |-> receiver]

chain_response_from_json(data) ==
    ChainResponse(chain_from_json(Member(data, "blocks")),
                  chain_from_json(Member(data, "ml_blocks")),
                  Member(data, "receiver"))

DecodesAsLocalChainRequest(data) == HasOnce(data, "from_peer_id")

LocalChainRequest(from_peer_id) == [from_peer_id |-> from_peer_id]

local_chain_request_from_json(data) == LocalChainRequest(Member(data, "from_peer_id"))

BLOCK_TOPIC == "blocks"

ML_BLOCK_TOPIC == "ml_blocks"

CHAIN_TOPIC == "chains"

Message(source, topic, data) == [source |-> source, topic |-> topic, data |-> data]

\* floodsub hands a published message to every other subscribed peer that
\* still runs, in order
Publish(source, topic, data) ==
    /\ inbox' = [q \in Peers |->
                    IF q = source \/ status[q] /= "running" THEN inbox[q]
                    ELSE Append(inbox[q], Message(source, topic, data))]
    /\ sent' = sent + 1

Panic(p, message) == status' = [status EXCEPT ![p] = message]

(***************************************************************************)
(* inject_event: the four branches of the gossip handler, tried in order.   *)
(***************************************************************************)
\* mutant: both fork choices run before either chain is assigned
HandleChainResponse_both_first(p, resp) ==
    IF resp.receiver = p
    THEN LET general == choose_general_chain(blocks[p], resp.blocks)
             ml == choose_ml_chain(ml_blocks[p], resp.ml_blocks)
         IN  IF general.outcome = "panicked" \/ ml.outcome = "panicked"
             THEN /\ Panic(p, IF general.outcome = "panicked"
                              THEN general.message ELSE ml.message)
                  /\ UNCHANGED <<blocks, ml_blocks, response_channel>>
             ELSE /\ blocks' = [blocks EXCEPT ![p] = general.chain]
                  /\ ml_blocks' = [ml_blocks EXCEPT ![p] = ml.chain]
                  /\ UNCHANGED <<status, response_channel>>
    ELSE UNCHANGED <<blocks, ml_blocks, response_channel, status>>

\* lines 80-87: a ChainResponse; the general chain is assigned before the ml
\* fork choice runs
HandleChainResponse(p, resp) ==
    IF resp.receiver = p
    THEN LET general == choose_general_chain(blocks[p], resp.blocks)
         IN  IF general.outcome = "panicked"
             THEN /\ Panic(p, general.message)
                  /\ UNCHANGED <<blocks, ml_blocks, response_channel>>
             ELSE LET ml == choose_ml_chain(ml_blocks[p], resp.ml_blocks)
                  IN  /\ blocks' = [blocks EXCEPT ![p] = general.chain]
                      /\ IF ml.outcome = "panicked"
                         THEN Panic(p, ml.message) /\ UNCHANGED ml_blocks
                         ELSE /\ ml_blocks' = [ml_blocks EXCEPT ![p] = ml.chain]
                              /\ UNCHANGED status
                      /\ UNCHANGED response_channel
    ELSE UNCHANGED <<blocks, ml_blocks, response_channel, status>>

\* mutant: the response is addressed to this node, not to the requester
HandleLocalChainRequest_to_self(p, source, req) ==
    IF p = req.from_peer_id
    THEN /\ response_channel' =
                [response_channel EXCEPT
                    ![p] = Append(@, ChainResponse(blocks[p], ml_blocks[p], p))]
         /\ UNCHANGED <<blocks, ml_blocks, status>>
    ELSE UNCHANGED <<blocks, ml_blocks, response_channel, status>>

\* lines 89-99: a LocalChainRequest
HandleLocalChainRequest(p, source, req) ==
    IF p = req.from_peer_id
    THEN /\ response_channel' =
                [response_channel EXCEPT
                    ![p] = Append(@, ChainResponse(blocks[p], ml_blocks[p], source))]
         /\ UNCHANGED <<blocks, ml_blocks, status>>
    ELSE UNCHANGED <<blocks, ml_blocks, response_channel, status>>

\* lines 101-102: a general block
HandleBlock(p, block) ==
    LET added == try_add_general_block(blocks[p], block)
    IN  /\ IF added.outcome = "panicked"
           THEN Panic(p, added.message) /\ UNCHANGED blocks
           ELSE blocks' = [blocks EXCEPT ![p] = added.chain] /\ UNCHANGED status
        /\ UNCHANGED <<ml_blocks, response_channel>>

\* lines 104-105: an ml block
HandleMlBlock(p, block) ==
    LET added == try_add_ml_block(ml_blocks[p], block)
    IN  /\ IF added.outcome = "panicked"
           THEN Panic(p, added.message) /\ UNCHANGED ml_blocks
           ELSE ml_blocks' = [ml_blocks EXCEPT ![p] = added.chain] /\ UNCHANGED status
        /\ UNCHANGED <<blocks, response_channel>>

\* which branch of the handler a payload takes
Branch(data) ==
    IF DecodesAsChainResponse(data) THEN "ChainResponse"
    ELSE IF DecodesAsLocalChainRequest(data) THEN "LocalChainRequest"
    ELSE IF DecodesAsBlock(data) THEN "Block"
    ELSE IF DecodesAsMlBlock(data) THEN "MlBlock"
    ELSE "none"

\* mutant: a payload that no branch decodes ends the process
inject_event_strict(p, msg) ==
    /\ status[p] = "running"
    /\ event' = [op |-> "inject_event", peer |-> p, msg |-> msg, pre |-> Pre(p)]
    /\ CASE Branch(msg.data) = "ChainResponse" ->
                HandleChainResponse(p, chain_response_from_json(msg.data))
         [] Branch(msg.data) = "LocalChainRequest" ->
                HandleLocalChainRequest(p, msg.source,
                                        local_chain_request_from_json(msg.data))
         [] Branch(msg.data) = "Block" -> HandleBlock(p, block_from_json(msg.data))
         [] Branch(msg.data) = "MlBlock" -> HandleMlBlock(p, block_from_json(msg.data))
         [] OTHER -> /\ Panic(p, "unrecognized payload")
                     /\ UNCHANGED <<blocks, ml_blocks, response_channel>>

inject_event(p, msg) ==
    /\ status[p] = "running"
    /\ event' = [op |-> "inject_event", peer |-> p, msg |-> msg, pre |-> Pre(p)]
    /\ CASE Branch(msg.data) = "ChainResponse" ->
                HandleChainResponse(p, chain_response_from_json(msg.data))
         [] Branch(msg.data) = "LocalChainRequest" ->
                HandleLocalChainRequest(p, msg.source,
                                        local_chain_request_from_json(msg.data))
         [] Branch(msg.data) = "Block" -> HandleBlock(p, block_from_json(msg.data))
         [] Branch(msg.data) = "MlBlock" -> HandleMlBlock(p, block_from_json(msg.data))
         [] OTHER -> UNCHANGED <<blocks, ml_blocks, response_channel, status>>

(***************************************************************************)
(* Mine, append and broadcast (add_general_block, add_ml_block).            *)
(***************************************************************************)
add_general_block(p, data, now) ==
    /\ status[p] = "running"
    /\ event' = [op |-> "add_general_block", peer |-> p, data |-> data, now |-> now,
                 pre |-> Pre(p)]
    /\ IF blocks[p] = <<>>
       THEN /\ Panic(p, "there is at least one block")
            /\ UNCHANGED <<blocks, inbox, sent>>
       ELSE LET latest_block == blocks[p][Len(blocks[p])]
                block == new_general_block(latest_block.id + 1, latest_block.hash,
                                           data, now)
            IN  /\ blocks' = [blocks EXCEPT ![p] = Append(@, block)]
                /\ Publish(p, BLOCK_TOPIC, block_to_json(block))
                /\ UNCHANGED status
    /\ UNCHANGED <<ml_blocks, response_channel>>

\* mutant: the ml block is published on the topic of the general blocks
add_ml_block_on_block_topic(p, data, now) ==
    /\ status[p] = "running"
    /\ event' = [op |-> "add_ml_block", peer |-> p, data |-> data, now |-> now,
                 pre |-> Pre(p)]
    /\ IF ml_blocks[p] = <<>>
       THEN /\ Panic(p, "there is at least one block")
            /\ UNCHANGED <<ml_blocks, inbox, sent>>
       ELSE LET latest_block == ml_blocks[p][Len(ml_blocks[p])]
                block == new_ml_block(latest_block.id + 1, latest_block.hash,
                                      data, now)
            IN  /\ ml_blocks' = [ml_blocks EXCEPT ![p] = Append(@, block)]
                /\ Publish(p, BLOCK_TOPIC, block_to_json(block))
                /\ UNCHANGED status
    /\ UNCHANGED <<blocks, response_channel>>

add_ml_block(p, data, now) ==
    /\ status[p] = "running"
    /\ event' = [op |-> "add_ml_block", peer |-> p, data |-> data, now |-> now,
                 pre |-> Pre(p)]
    /\ IF ml_blocks[p] = <<>>
       THEN /\ Panic(p, "there is at least one block")
            /\ UNCHANGED <<ml_blocks, inbox, sent>>
       ELSE LET latest_block == ml_blocks[p][Len(ml_blocks[p])]
                block == new_ml_block(latest_block.id + 1, latest_block.hash,
                                      data, now)
            IN  /\ ml_blocks' = [ml_blocks EXCEPT ![p] = Append(@, block)]
                /\ Publish(p, ML_BLOCK_TOPIC, block_to_json(block))
                /\ UNCHANGED status
    /\ UNCHANGED <<blocks, response_channel>>

(***************************************************************************)
(* The network and the outer loop.                                          *)
(***************************************************************************)
\* floodsub delivers the oldest pending message to the handler
Deliver(p) ==
    /\ inbox[p] /= <<>>
    /\ inject_event(p, Head(inbox[p]))
    /\ inbox' = [inbox EXCEPT ![p] = Tail(@)]
    /\ UNCHANGED sent

\* the outer loop asks peer q for its chains
SendChainRequest(p, q) ==
    /\ status[p] = "running"
    /\ p /= q
    /\ Publish(p, CHAIN_TOPIC, local_chain_request_to_json(LocalChainRequest(q)))
    /\ event' = [op |-> "send_chain_request", peer |-> p, pre |-> Pre(p)]
    /\ UNCHANGED <<blocks, ml_blocks, response_channel, status>>

\* the outer loop takes a response from the channel and publishes it
PublishResponse(p) ==
    /\ status[p] = "running"
    /\ response_channel[p] /= <<>>
    /\ Publish(p, CHAIN_TOPIC, chain_response_to_json(Head(response_channel[p])))
    /\ response_channel' = [response_channel EXCEPT ![p] = Tail(@)]
    /\ event' = [op |-> "publish_response", peer |-> p, pre |-> Pre(p)]
    /\ UNCHANGED <<blocks, ml_blocks, status>>

(***************************************************************************)
(* Hand-made messages from a peer outside the modelled nodes.               *)
(***************************************************************************)
NonHex == <<"z", "z">>

\* the least nonce from 0 whose digest does not carry `prefix`
RECURSIVE NonceAvoiding(_, _, _, _, _, _)
NonceAvoiding(prefix, id, timestamp, previous_hash, data, nonce) ==
    IF starts_with(hash_to_binary_representation(
                       calculate_hash(id, timestamp, previous_hash, data, nonce)), prefix)
    THEN NonceAvoiding(prefix, id, timestamp, previous_hash, data, nonce + 1)
    ELSE nonce

\* a block on `previous` with a true hash that does not carry `prefix`
Unmined(prefix, previous, timestamp, data) ==
    LET nonce == NonceAvoiding(prefix, previous.id + 1, timestamp, previous.hash, data, 0)
    IN  Block(previous.id + 1,
              hex_encode(calculate_hash(previous.id + 1, timestamp, previous.hash,
                                        data, nonce)),
              previous.hash, timestamp, data, nonce)

\* blocks offered to a node whose tip is `tip`
CraftedBlocks(tip) ==
    { Block(id, NonHex, previous_hash, 0, "a", 0) :
        id \in {tip.id, tip.id + 1},
        previous_hash \in {tip.hash, GenesisPreviousHash} } \cup
    { Block(id, hex_encode(calculate_hash(id, 0, previous_hash, "a", nonce)),
            previous_hash, 0, "a", nonce) :
        id \in {tip.id, tip.id + 1},
        previous_hash \in {tip.hash, GenesisPreviousHash},
        nonce \in {0, 1} }

\* a first block that is no genesis block
ForeignFirst == Block(0, GenesisHash, NonHex, 0, "b", 0)

CraftedGeneralChains ==
    LET one == Unmined(GENERAL_DIFFICULTY_PREFIX, general_genesis, 0, "a")
        two == Unmined(GENERAL_DIFFICULTY_PREFIX, one, 0, "a")
    IN  { <<>>,
          <<general_genesis>>,
          <<general_genesis, one>>,
          <<general_genesis, one, two>>,
          <<general_genesis, new_general_block(1, GenesisHash, "a", 0)>>,
          <<general_genesis, Block(1, NonHex, GenesisHash, 0, "a", 0)>>,
          <<ForeignFirst, one>> }

CraftedMlChains ==
    LET one == Unmined(ML_DIFFICULTY_PREFIX, ml_genesis, 0, "a")
    IN  { <<ml_genesis>>,
          <<ml_genesis, one>>,
          <<ml_genesis, new_ml_block(1, GenesisHash, "a", 0)>> }

CraftedResponses(p) ==
    { ChainResponse(chain, ml_chain, p) :
        chain \in CraftedGeneralChains, ml_chain \in CraftedMlChains } \cup
    { ChainResponse(<<general_genesis, Unmined(GENERAL_DIFFICULTY_PREFIX,
                                               general_genesis, 0, "a")>>,
                    <<ml_genesis>>, Outsider) }

DeliverCrafted(p, topic, data) ==
    /\ inject_event(p, Message(Outsider, topic, data))
    /\ sent' = sent + 1
    /\ UNCHANGED inbox

DeliverCraftedBlock(p) ==
    /\ blocks[p] /= <<>>
    /\ \E block \in CraftedBlocks(blocks[p][Len(blocks[p])]) :
          DeliverCrafted(p, BLOCK_TOPIC, block_to_json(block))

DeliverCraftedResponse(p) ==
    \E resp \in CraftedResponses(p) :
        DeliverCrafted(p, CHAIN_TOPIC, chain_response_to_json(resp))

DeliverCraftedRequest(p) ==
    \E q \in {p, Outsider} :
        DeliverCrafted(p, CHAIN_TOPIC, local_chain_request_to_json(LocalChainRequest(q)))

\* payloads that are none of the four shapes: another object, the empty
\* object, a block without its nonce, a response without its receiver, a
\* request that names its only field twice
DeliverUnrecognized(p) ==
    \/ DeliverCrafted(p, CHAIN_TOPIC, << <<"peers", "ls">> >>)
    \/ DeliverCrafted(p, CHAIN_TOPIC, <<>>)
    \/ DeliverCrafted(p, BLOCK_TOPIC, SubSeq(block_to_json(general_genesis), 1, 5))
    \/ DeliverCrafted(p, CHAIN_TOPIC,
                      SubSeq(chain_response_to_json(
                                 ChainResponse(<<general_genesis>>, <<ml_genesis>>, p)),
                             1, 2))
    \/ DeliverCrafted(p, CHAIN_TOPIC,
                      local_chain_request_to_json(LocalChainRequest(p))
                          \o local_chain_request_to_json(LocalChainRequest(p)))

\* payloads that decode as more than one shape (members a struct does not have
\* are skipped): a response that is also a request for this node, and a request
\* that is also a general block on the node's tip
DeliverHybrid(p) ==
    \/ \E receiver \in {p, Outsider} :
          DeliverCrafted(p, CHAIN_TOPIC,
                         chain_response_to_json(
                             ChainResponse(<<general_genesis>>, <<ml_genesis>>, receiver))
                             \o local_chain_request_to_json(LocalChainRequest(p)))
    \/ /\ blocks[p] /= <<>>
       /\ \E q \in {p, Outsider} :
             DeliverCrafted(p, BLOCK_TOPIC,
                            local_chain_request_to_json(LocalChainRequest(q))
                                \o block_to_json(Unmined(GENERAL_DIFFICULTY_PREFIX,
                                                         blocks[p][Len(blocks[p])],
                                                         0, "a")))

(***************************************************************************)
(* Spec: one node, its outer loop, and an outsider that sends it anything.  *)
(***************************************************************************)
Init == Startup({"p1"})

Next ==
    \/ \E p \in Peers, data \in MineData, now \in Times :
          sent < MaxSteps /\ add_general_block(p, data, now)
    \/ \E p \in Peers, data \in MineData, now \in Times :
          sent < MaxSteps /\ add_ml_block(p, data, now)
    \/ \E p \in Peers : sent < MaxSteps /\ SendChainRequest(p, Outsider)
    \/ \E p \in Peers : sent < MaxSteps /\ PublishResponse(p)
    \/ \E p \in Peers : sent < MaxSteps /\ DeliverCraftedBlock(p)
    \/ \E p \in Peers : sent < MaxSteps /\ DeliverCraftedResponse(p)
    \/ \E p \in Peers : sent < MaxSteps /\ DeliverCraftedRequest(p)
    \/ \E p \in Peers : sent < MaxSteps /\ DeliverUnrecognized(p)
    \/ \E p \in Peers : sent < MaxSteps /\ DeliverHybrid(p)

Spec == Init /\ [][Next]_vars

(***************************************************************************)
(* NetSpec: two nodes that run this code and exchange only what it sends.   *)
(***************************************************************************)
NetInit == Startup({"p1", "p2"})

NetNext ==
    \/ \E p \in Peers, data \in MineData, now \in NetTimes :
          sent < MaxPublished /\ add_general_block(p, data, now)
    \/ \E p \in Peers, data \in MineData, now \in NetTimes :
          sent < MaxPublished /\ add_ml_block(p, data, now)
    \/ \E p \in Peers, q \in Peers \cup {Outsider} :
          sent < MaxPublished /\ SendChainRequest(p, q)
    \/ \E p \in Peers : sent < MaxPublished /\ PublishResponse(p)
    \/ \E p \in Peers : Deliver(p)

NetSpec == NetInit /\ [][NetNext]_vars

(***************************************************************************)
(* UnitSpec: each function of the ledger and the miner called once on       *)
(* inputs drawn from bounded sets, and try_add_*_block called on a node     *)
(* that starts from its genesis blocks.  `event` holds the call, its        *)
(* arguments and what it returned.                                          *)
(***************************************************************************)
Seqs(S, n) == UNION {[1..k -> S] : k \in 0..n}

UnitPrevious ==
    { general_genesis,
      Block(1, hex_encode(DigestTable[2]), GenesisHash, 0, "a", 0),
      Block(2, hex_encode(DigestTable[3]), hex_encode(DigestTable[2]), 1, "b", 1) }

UnitHashes ==
    {hex_encode(DigestTable[i]) : i \in 1..Len(DigestTable)}
        \cup {GenesisHash, NonHex, <<"0">>, <<"F", "F", "0", "0", "0", "0">>}

UnitBlocks ==
    { Block(id, hash, previous.hash, timestamp, data, nonce) :
        id \in 0..3, hash \in UnitHashes, previous \in UnitPrevious,
        timestamp \in Times, data \in {"a", "b"}, nonce \in 0..2 }

UnitGeneralChainBlocks ==
    LET one == Unmined(GENERAL_DIFFICULTY_PREFIX, general_genesis, 0, "a")
    IN  { general_genesis, one,
          Unmined(GENERAL_DIFFICULTY_PREFIX, one, 1, "b"),
          new_general_block(1, GenesisHash, "a", 0),
          Block(1, NonHex, GenesisHash, 0, "a", 0) }

UnitMlChainBlocks ==
    LET one == Unmined(ML_DIFFICULTY_PREFIX, ml_genesis, 0, "a")
    IN  { ml_genesis, one,
          Unmined(ML_DIFFICULTY_PREFIX, one, 1, "b"),
          new_ml_block(1, GenesisHash, "a", 0),
          Block(1, NonHex, GenesisHash, 0, "a", 0) }

\* what a call that only computes leaves as it is
node == <<blocks, ml_blocks, response_channel, inbox, status, sent>>

CallIsGeneralBlockValid ==
    /\ event.op = "init"
    /\ \E block \in UnitBlocks, previous_block \in UnitPrevious :
          event' = [op |-> "is_general_block_valid", block |-> block,
                    previous_block |-> previous_block,
                    ret |-> is_general_block_valid(block, previous_block)]
    /\ UNCHANGED node

CallIsMlBlockValid ==
    /\ event.op = "init"
    /\ \E block \in UnitBlocks, previous_block \in UnitPrevious :
          event' = [op |-> "is_ml_block_valid", block |-> block,
                    previous_block |-> previous_block,
                    ret |-> is_ml_block_valid(block, previous_block)]
    /\ UNCHANGED node

CallIsGeneralChainValid ==
    /\ event.op = "init"
    /\ \E chain \in Seqs(UnitGeneralChainBlocks, MaxUnitLen) :
          event' = [op |-> "is_general_chain_valid", chain |-> chain,
                    ret |-> is_general_chain_valid(chain)]
    /\ UNCHANGED node

CallIsMlChainValid ==
    /\ event.op = "init"
    /\ \E chain \in Seqs(UnitMlChainBlocks, MaxUnitLen) :
          event' = [op |-> "is_ml_chain_valid", chain |-> chain,
                    ret |-> is_ml_chain_valid(chain)]
    /\ UNCHANGED node

CallChooseGeneralChain ==
    /\ event.op = "init"
    /\ \E local, remote \in Seqs(UnitGeneralChainBlocks, MaxUnitLen - 1) :
          event' = [op |-> "choose_general_chain", local |-> local, remote |-> remote,
                    ret |-> choose_general_chain(local, remote)]
    /\ UNCHANGED node

CallChooseMlChain ==
    /\ event.op = "init"
    /\ \E local, remote \in Seqs(UnitMlChainBlocks, MaxUnitLen - 1) :
          event' = [op |-> "choose_ml_chain", local |-> local, remote |-> remote,
                    ret |-> choose_ml_chain(local, remote)]
    /\ UNCHANGED node

CallMineGeneralBlock ==
    /\ event.op = "init"
    /\ \E id \in 0..3, timestamp \in Times, previous \in UnitPrevious, data \in {"a", "b"} :
          event' = [op |-> "mine_general_block", id |-> id, timestamp |-> timestamp,
                    previous_hash |-> previous.hash, data |-> data,
                    ret |-> mine_general_block(id, timestamp, previous.hash, data)]
    /\ UNCHANGED node

CallMineMlBlock ==
    /\ event.op = "init"
    /\ \E id \in 0..3, timestamp \in Times, previous \in UnitPrevious, data \in {"a", "b"} :
          event' = [op |-> "mine_ml_block", id |-> id, timestamp |-> timestamp,
                    previous_hash |-> previous.hash, data |-> data,
                    ret |-> mine_ml_block(id, timestamp, previous.hash, data)]
    /\ UNCHANGED node

\* the digests handed to hash_to_binary_representation
UnitBytes == {0, 1, 2, 3, 16, 128, 255}

UnitDigests == [1..3 -> UnitBytes]

CallHashToBinaryRepresentation ==
    /\ event.op = "init"
    /\ \E hash \in UnitDigests :
          event' = [op |-> "hash_to_binary_representation", hash |-> hash,
                    ret |-> hash_to_binary_representation(hash)]
    /\ UNCHANGED node

\* the blocks handed to try_add_*_block on a chain whose tip is `tip`
UnitCandidates(tip) ==
    CraftedBlocks(tip) \cup
        { new_general_block(tip.id + 1, tip.hash, "a", 0),
          new_ml_block(tip.id + 1, tip.hash, "a", 0) }

CallTryAddGeneralBlock(p) ==
    /\ event.op \in {"init", "try_add_general_block", "try_add_ml_block"}
    /\ status[p] = "running"
    /\ sent < MaxSteps
    /\ \E block \in UnitCandidates(blocks[p][Len(blocks[p])]) :
          /\ HandleBlock(p, block)
          /\ event' = [op |-> "try_add_general_block", peer |-> p, block |-> block,
                       pre |-> Pre(p)]
    /\ sent' = sent + 1
    /\ UNCHANGED inbox

CallTryAddMlBlock(p) ==
    /\ event.op \in {"init", "try_add_general_block", "try_add_ml_block"}
    /\ status[p] = "running"
    /\ sent < MaxSteps
    /\ \E block \in UnitCandidates(ml_blocks[p][Len(ml_blocks[p])]) :
          /\ HandleMlBlock(p, block)
          /\ event' = [op |-> "try_add_ml_block", peer |-> p, block |-> block,
                       pre |-> Pre(p)]
    /\ sent' = sent + 1
    /\ UNCHANGED inbox

UnitInit == Startup({"p1"})

UnitNext ==
    \/ CallIsGeneralBlockValid
    \/ CallIsMlBlockValid
    \/ CallIsGeneralChainValid
    \/ CallIsMlChainValid
    \/ CallChooseGeneralChain
    \/ CallChooseMlChain
    \/ CallMineGeneralBlock
    \/ CallMineMlBlock
    \/ CallHashToBinaryRepresentation
    \/ \E p \in Peers : CallTryAddGeneralBlock(p)
    \/ \E p \in Peers : CallTryAddMlBlock(p)

UnitSpec == UnitInit /\ [][UnitNext]_vars

(***************************************************************************)
(* Properties.                                                              *)
(***************************************************************************)
Last(seq) == seq[Len(seq)]

\* the four conditions of a valid block as the specification lists them
FourConditions(prefix, block, previous) ==
    /\ block.previous_hash = previous.hash
    /\ HexDecodeOk(block.hash)
    /\ starts_with(hash_to_binary_representation(hex_decode(block.hash)), prefix)
    /\ block.id = previous.id + 1
    /\ block.hash = hex_encode(calculate_hash(block.id, block.timestamp,
                                              block.previous_hash, block.data,
                                              block.nonce))

\* C2: is_block_valid(block, previous) returns true exactly when the previous
\* hash links, the binary rendering of the hash starts with the chain's prefix,
\* the id is the previous id plus one, and the hash is the recomputed digest.
C2_ValidIffFourConditions ==
    /\ event.op = "is_general_block_valid" =>
          (event.ret = "true" <=>
              FourConditions(GENERAL_DIFFICULTY_PREFIX, event.block, event.previous_block))
    /\ event.op = "is_ml_block_valid" =>
          (event.ret = "true" <=>
              FourConditions(ML_DIFFICULTY_PREFIX, event.block, event.previous_block))

\* the longest-valid-chain rule, given which of the two chains pass validation
FollowsRule(local, remote, local_passes, remote_passes, ret) ==
    /\ local_passes /\ remote_passes =>
          /\ ret.outcome = "returned"
          /\ ret.chain = IF Len(remote) > Len(local) THEN remote ELSE local
    /\ local_passes /\ ~remote_passes =>
          ret.outcome = "returned" /\ ret.chain = local
    /\ remote_passes /\ ~local_passes =>
          ret.outcome = "returned" /\ ret.chain = remote

\* C3: choose_chain(local, remote) follows the longest-valid-chain rule for every
\* pair of chains: both pass is_chain_valid, then remote only if strictly longer,
\* else local; exactly one passes, then that one.
C3_LongestValidChain ==
    /\ event.op = "choose_general_chain" =>
          FollowsRule(event.local, event.remote,
                      is_general_chain_valid(event.local) = "true",
                      is_general_chain_valid(event.remote) = "true", event.ret)
    /\ event.op = "choose_ml_chain" =>
          FollowsRule(event.local, event.remote,
                      is_ml_chain_valid(event.local) = "true",
                      is_ml_chain_valid(event.remote) = "true", event.ret)

\* the rule holds whenever neither validation panics on undecodable hex
C3_RuleWhenNoPanic ==
    /\ (/\ event.op = "choose_general_chain"
        /\ is_general_chain_valid(event.local) /= "panic"
        /\ is_general_chain_valid(event.remote) /= "panic") =>
          FollowsRule(event.local, event.remote,
                      is_general_chain_valid(event.local) = "true",
                      is_general_chain_valid(event.remote) = "true", event.ret)
    /\ (/\ event.op = "choose_ml_chain"
        /\ is_ml_chain_valid(event.local) /= "panic"
        /\ is_ml_chain_valid(event.remote) /= "panic") =>
          FollowsRule(event.local, event.remote,
                      is_ml_chain_valid(event.local) = "true",
                      is_ml_chain_valid(event.remote) = "true", event.ret)

\* C4: when both chains fail is_chain_valid, choose_chain ends in a fatal failure
\* and returns neither chain; a chain it returns is one of the two and passed
\* validation.
C4_BothInvalidIsFatal ==
    /\ event.op = "choose_general_chain" =>
          /\ (/\ is_general_chain_valid(event.local) /= "true"
              /\ is_general_chain_valid(event.remote) /= "true")
                => event.ret.outcome = "panicked"
          /\ event.ret.outcome = "returned" =>
                /\ event.ret.chain \in {event.local, event.remote}
                /\ is_general_chain_valid(event.ret.chain) = "true"
    /\ event.op = "choose_ml_chain" =>
          /\ (/\ is_ml_chain_valid(event.local) /= "true"
              /\ is_ml_chain_valid(event.remote) /= "true")
                => event.ret.outcome = "panicked"
          /\ event.ret.outcome = "returned" =>
                /\ event.ret.chain \in {event.local, event.remote}
                /\ is_ml_chain_valid(event.ret.chain) = "true"

\* both chains have two blocks, both were validated to false, the call panicked
C4_Witness ==
    /\ event.op = "choose_ml_chain"
    /\ Len(event.local) = 2 /\ Len(event.remote) = 2
    /\ is_ml_chain_valid(event.local) = "false"
    /\ is_ml_chain_valid(event.remote) = "false"
    /\ event.ret.outcome = "panicked"
    /\ event.ret.message = "local and remote ML chains are both invalid"

\* C5: try_add_block on a non-empty chain appends the block when is_block_valid
\* against the tip is true and leaves the chain as it was otherwise; the chain of
\* the other kind is unchanged either way.
C5_TryAddAppendsIffValid ==
    /\ event.op = "try_add_general_block" =>
          /\ event.pre.blocks /= <<>>
          /\ blocks[event.peer] =
                IF is_general_block_valid(event.block, Last(event.pre.blocks)) = "true"
                THEN event.pre.blocks \o <<event.block>>
                ELSE event.pre.blocks
          /\ ml_blocks[event.peer] = event.pre.ml_blocks
    /\ event.op = "try_add_ml_block" =>
          /\ event.pre.ml_blocks /= <<>>
          /\ ml_blocks[event.peer] =
                IF is_ml_block_valid(event.block, Last(event.pre.ml_blocks)) = "true"
                THEN event.pre.ml_blocks \o <<event.block>>
                ELSE event.pre.ml_blocks
          /\ blocks[event.peer] = event.pre.blocks

\* a second block was appended to the ml chain, after a first one
C5_Witness ==
    /\ event.op = "try_add_ml_block"
    /\ Len(event.pre.ml_blocks) = 2
    /\ Len(ml_blocks[event.peer]) = 3
    /\ Last(ml_blocks[event.peer]) = event.block

\* C6: is_chain_valid(chain) is true exactly when is_block_valid(chain[i],
\* chain[i-1]) is true for every index i from 1 on (0-based); chains of length 0
\* or 1 are valid, whatever block 0 is.
C6_ChainValidIffPairwise ==
    /\ event.op = "is_general_chain_valid" =>
          /\ event.ret = "true" <=>
                \A i \in 2..Len(event.chain) :
                    is_general_block_valid(event.chain[i], event.chain[i - 1]) = "true"
          /\ Len(event.chain) <= 1 => event.ret = "true"
    /\ event.op = "is_ml_chain_valid" =>
          /\ event.ret = "true" <=>
                \A i \in 2..Len(event.chain) :
                    is_ml_block_valid(event.chain[i], event.chain[i - 1]) = "true"
          /\ Len(event.chain) <= 1 => event.ret = "true"

\* three blocks, the first pair valid and the chain rejected for the second
C6_Witness ==
    /\ event.op = "is_general_chain_valid"
    /\ Len(event.chain) = 3
    /\ is_general_block_valid(event.chain[2], event.chain[1]) = "true"
    /\ is_general_block_valid(event.chain[3], event.chain[2]) = "false"
    /\ event.ret = "false"

\* whether the digest for `nonce` carries `prefix` in its binary rendering
Satisfies(prefix, call, nonce) ==
    starts_with(hash_to_binary_representation(
                    calculate_hash(call.id, call.timestamp, call.previous_hash,
                                   call.data, nonce)), prefix)

LeastNonce(prefix, call) ==
    /\ call.ret.nonce >= 0
    /\ Satisfies(prefix, call, call.ret.nonce)
    /\ \A nonce \in 0..(call.ret.nonce - 1) : ~Satisfies(prefix, call, nonce)
    /\ call.ret.hash = hex_encode(calculate_hash(call.id, call.timestamp,
                                                 call.previous_hash, call.data,
                                                 call.ret.nonce))
    /\ starts_with(hash_to_binary_representation(hex_decode(call.ret.hash)), prefix)

\* C7: mine returns the least nonce n >= 0 whose digest's binary rendering starts
\* with the chain's prefix, and the hex digest for that nonce.
C7_MineReturnsLeastNonce ==
    /\ event.op = "mine_general_block" => LeastNonce(GENERAL_DIFFICULTY_PREFIX, event)
    /\ event.op = "mine_ml_block" => LeastNonce(ML_DIFFICULTY_PREFIX, event)

\* a search that had to pass over at least two nonces
C7_Witness ==
    /\ event.op = "mine_general_block"
    /\ event.ret.nonce >= 2

\* C1: a block the miner produces to extend a tip (id = tip.id + 1,
\* previous_hash = tip.hash) is accepted by is_block_valid(block, tip), for
\* either chain kind.
C1_MinedBlockValidates ==
    /\ (event.op = "add_general_block" /\ status[event.peer] = "running") =>
          is_general_block_valid(Last(blocks[event.peer]), Last(event.pre.blocks)) = "true"
    /\ (event.op = "add_ml_block" /\ status[event.peer] = "running") =>
          is_ml_block_valid(Last(ml_blocks[event.peer]), Last(event.pre.ml_blocks)) = "true"

\* the last step handled a payload that is exactly a serialized LocalChainRequest
HandledLocalChainRequest ==
    /\ event.op = "inject_event"
    /\ Len(event.msg.data) = 1
    /\ event.msg.data[1][1] = "from_peer_id"

\* C8: a LocalChainRequest whose from_peer_id is the receiving node's id makes the
\* node emit exactly one ChainResponse on the response channel, holding its two
\* chains and addressed to the message's sender; one that names another peer
\* emits nothing. Both chains are unchanged either way.
C8_RequestAnsweredOnce ==
    HandledLocalChainRequest =>
        LET p == event.peer
            pre == event.pre
        IN  /\ blocks[p] = pre.blocks
            /\ ml_blocks[p] = pre.ml_blocks
            /\ status[p] = "running"
            /\ response_channel[p] =
                  IF event.msg.data[1][2] = p
                  THEN pre.response_channel
                           \o <<[blocks |-> pre.blocks, ml_blocks |-> pre.ml_blocks,
                                 receiver |-> event.msg.source]>>
                  ELSE pre.response_channel

\* a second request addressed to the node was answered after a first one
C8_Witness ==
    /\ HandledLocalChainRequest
    /\ event.msg.data[1][2] = event.peer
    /\ Len(event.pre.response_channel) = 1
    /\ Len(response_channel[event.peer]) = 2
    /\ response_channel[event.peer][2].receiver = Outsider

\* the last step handled a payload that decodes as a ChainResponse
HandledChainResponse ==
    /\ event.op = "inject_event"
    /\ DecodesAsChainResponse(event.msg.data)

\* fork choice ends the process: a validation panicked or both chains failed
Dies(local_valid, remote_valid) ==
    \/ local_valid = "panic"
    \/ remote_valid = "panic"
    \/ local_valid = "false" /\ remote_valid = "false"

\* the chain fork choice returns when it does not end the process
Winner(local, remote, local_valid, remote_valid) ==
    IF local_valid = "true" /\ (remote_valid /= "true" \/ Len(local) >= Len(remote))
    THEN local
    ELSE remote

\* C9: on a ChainResponse whose receiver is this node, the general chain becomes
\* choose_chain(local general, remote general) and the ml chain becomes
\* choose_chain(local ml, remote ml); a remote general snapshot that is longer and
\* passes is_chain_valid replaces the local one whatever happens to the ml
\* snapshot. A fork choice that panics ends the process where the handler stands:
\* for the general chain before anything is assigned, for the ml chain after the
\* general chain was. A ChainResponse for another peer changes nothing.
C9_ResponseResolvesBothChains ==
    HandledChainResponse =>
        LET p == event.peer
            pre == event.pre
            resp == chain_response_from_json(event.msg.data)
            general_local == is_general_chain_valid(pre.blocks)
            general_remote == is_general_chain_valid(resp.blocks)
            ml_local == is_ml_chain_valid(pre.ml_blocks)
            ml_remote == is_ml_chain_valid(resp.ml_blocks)
            general_dies == Dies(general_local, general_remote)
            ml_dies == Dies(ml_local, ml_remote)
        IN  /\ response_channel[p] = pre.response_channel
            /\ resp.receiver /= p =>
                  /\ blocks[p] = pre.blocks
                  /\ ml_blocks[p] = pre.ml_blocks
                  /\ status[p] = "running"
            /\ resp.receiver = p =>
                  /\ general_dies =>
                        /\ blocks[p] = pre.blocks
                        /\ ml_blocks[p] = pre.ml_blocks
                        /\ status[p] /= "running"
                  /\ ~general_dies =>
                        blocks[p] = Winner(pre.blocks, resp.blocks,
                                           general_local, general_remote)
                  /\ ~general_dies /\ ml_dies =>
                        /\ ml_blocks[p] = pre.ml_blocks
                        /\ status[p] /= "running"
                  /\ ~general_dies /\ ~ml_dies =>
                        /\ ml_blocks[p] = Winner(pre.ml_blocks, resp.ml_blocks,
                                                 ml_local, ml_remote)
                        /\ status[p] = "running"
                  /\ (Len(resp.blocks) > Len(pre.blocks) /\ general_remote = "true") =>
                        blocks[p] = resp.blocks

\* a longer valid general snapshot replaced the local chain while the ml fork
\* choice of the same response found both ml chains invalid
C9_Witness ==
    /\ HandledChainResponse
    /\ chain_response_from_json(event.msg.data).receiver = event.peer
    /\ Len(blocks[event.peer]) > Len(event.pre.blocks)
    /\ blocks[event.peer] = chain_response_from_json(event.msg.data).blocks
    /\ is_general_chain_valid(blocks[event.peer]) = "true"
    /\ status[event.peer] = "local and remote ML chains are both invalid"

\* C10: a serialized ml block, as add_ml_block publishes it, is handed to
\* try_add_block on the ml chain: the receiver's general chain is unchanged and
\* its ml chain grows by the block when the block is valid against the ml tip.
C10_MlBlockGoesToMlChain ==
    (/\ event.op = "inject_event"
     /\ event.msg.topic = ML_BLOCK_TOPIC
     /\ DecodesAsMlBlock(event.msg.data)) =>
        LET p == event.peer
            pre == event.pre
            block == block_from_json(event.msg.data)
        IN  /\ blocks[p] = pre.blocks
            /\ ml_blocks[p] =
                  IF is_ml_block_valid(block, Last(pre.ml_blocks)) = "true"
                  THEN pre.ml_blocks \o <<block>>
                  ELSE pre.ml_blocks

\* the last step handled a payload published on `topic`
HandledOn(topic) ==
    /\ event.op = "inject_event"
    /\ event.msg.topic = topic
    /\ DecodesAsBlock(event.msg.data)

\* `block` is what a miner produces on the tip of `chain`
Extends(block, chain) ==
    /\ chain /= <<>>
    /\ block.previous_hash = Last(chain).hash
    /\ block.id = Last(chain).id + 1

\* C11: when node A mines and broadcasts a general block and peer B's general
\* tip is the tip A mined on, B appends the block as it handles the broadcast, so
\* that B's general chain is A's; the same for an ml block and the ml chain.
C11_BroadcastBlockAppended ==
    /\ (HandledOn(BLOCK_TOPIC)
        /\ Extends(block_from_json(event.msg.data), event.pre.blocks)) =>
          blocks[event.peer] = event.pre.blocks \o <<block_from_json(event.msg.data)>>
    /\ (HandledOn(ML_BLOCK_TOPIC)
        /\ Extends(block_from_json(event.msg.data), event.pre.ml_blocks)) =>
          ml_blocks[event.peer] =
              event.pre.ml_blocks \o <<block_from_json(event.msg.data)>>

\* C12: a received block whose hash is not decodable hex is rejected: the chain
\* is unchanged and the node keeps running, also when its previous_hash is the
\* hash of the current tip.
C12_UndecodableHashRejected ==
    (/\ event.op = "inject_event"
     /\ DecodesAsBlock(event.msg.data)
     /\ ~DecodesAsChainResponse(event.msg.data)
     /\ ~DecodesAsLocalChainRequest(event.msg.data)
     /\ ~HexDecodeOk(block_from_json(event.msg.data).hash)) =>
        /\ blocks[event.peer] = event.pre.blocks
        /\ ml_blocks[event.peer] = event.pre.ml_blocks
        /\ status[event.peer] = "running"

\* what one mine-append-broadcast step on `chain` does: one block appended on
\* the old tip with the given data, and its serialization handed once, on
\* `topic`, to every other node that runs
MinedAndBroadcast(p, chain, topic) ==
    LET block == Last(chain'[p])
    IN  /\ chain[p] /= <<>>
        /\ chain'[p] = chain[p] \o <<block>>
        /\ block.id = Last(chain[p]).id + 1
        /\ block.previous_hash = Last(chain[p]).hash
        /\ block.data = event'.data
        /\ \A q \in Peers \ {p} : chain'[q] = chain[q]
        /\ \A q \in Peers :
              inbox'[q] = IF q /= p /\ status[q] = "running"
                          THEN inbox[q] \o <<[source |-> p, topic |-> topic,
                                              data |-> block_to_json(block)]>>
                          ELSE inbox[q]
        /\ UNCHANGED <<response_channel, status>>

\* C13: mine-append-broadcast with a data payload appends exactly one block to
\* the chain of its kind (id = old tip id + 1, previous_hash = old tip hash, the
\* given data), publishes the serialization of that block once on the block
\* topic of that kind, and leaves the other chain unchanged.
C13_MineAppendBroadcast ==
    [][/\ event'.op = "add_general_block" =>
            /\ MinedAndBroadcast(event'.peer, blocks, BLOCK_TOPIC)
            /\ UNCHANGED ml_blocks
       /\ event'.op = "add_ml_block" =>
            /\ MinedAndBroadcast(event'.peer, ml_blocks, ML_BLOCK_TOPIC)
            /\ UNCHANGED blocks]_vars

\* a node mined a second ml block and its peer holds the broadcast of it
C13_Witness ==
    /\ event.op = "add_ml_block"
    /\ Len(event.pre.ml_blocks) = 2
    /\ Len(ml_blocks[event.peer]) = 3
    /\ blocks[event.peer] = event.pre.blocks
    /\ \E q \in Peers \ {event.peer} :
          /\ inbox[q] /= <<>>
          /\ Last(inbox[q]) = [source |-> event.peer, topic |-> ML_BLOCK_TOPIC,
                               data |-> block_to_json(Last(ml_blocks[event.peer]))]

\* C14: in every reachable state each of a node's two chains has a block at
\* index 0 and that block has previous_hash "genesis".
C14_GenesisAtIndexZero ==
    \A p \in Peers :
        /\ blocks[p] /= <<>>
        /\ blocks[p][1].previous_hash = GenesisPreviousHash
        /\ ml_blocks[p] /= <<>>
        /\ ml_blocks[p][1].previous_hash = GenesisPreviousHash

\* every block after the first names the hash of the block before it and has
\* the next id
WellLinked(chain) ==
    \A i \in 2..Len(chain) :
        /\ chain[i].previous_hash = chain[i - 1].hash
        /\ chain[i].id = chain[i - 1].id + 1

\* C15: in every reachable state each chain of a node is well linked.
C15_ChainsWellLinked ==
    \A p \in Peers : WellLinked(blocks[p]) /\ WellLinked(ml_blocks[p])

\* a chain of three blocks taken over from a ChainResponse
C15_Witness ==
    /\ HandledChainResponse
    /\ Len(blocks[event.peer]) = 3
    /\ blocks[event.peer] /= event.pre.blocks
    /\ Len(event.pre.blocks) = 2
    /\ WellLinked(blocks[event.peer])

\* unchanged, one block appended, or replaced by a strictly longer chain
Grew(before, after) ==
    \/ after = before
    \/ Len(after) = Len(before) + 1 /\ SubSeq(after, 1, Len(before)) = before
    \/ Len(after) > Len(before)

\* C16: the length of a chain never decreases: every step leaves each chain as
\* it is, appends one block to it, or replaces it by a strictly longer chain.
C16_ChainsNeverShrink ==
    event.op /= "init" =>
        /\ Grew(event.pre.blocks, blocks[event.peer])
        /\ Grew(event.pre.ml_blocks, ml_blocks[event.peer])

\* C17: where every node runs this code and every message is one such a node
\* produces, a node's own chains pass is_chain_valid and handling a ChainResponse
\* never ends in the failure "local and remote chains are both invalid".
C17_HonestNetworkNeverBothInvalid ==
    \A p \in Peers :
        /\ status[p] /= "local and remote general chains are both invalid"
        /\ status[p] /= "local and remote ML chains are both invalid"

\* C18: classification applies the first rule, in priority order, whose whole
\* condition holds: a payload that decodes as a ChainResponse for another node
\* and as a LocalChainRequest naming this node makes the node emit one
\* ChainResponse, and a payload that decodes as a LocalChainRequest naming
\* another peer and as a general block goes to try_add_block on the general chain.
C18_FirstRuleWhoseConditionHolds ==
    event.op = "inject_event" =>
        LET p == event.peer
            pre == event.pre
            data == event.msg.data
            response_for_me ==
                /\ DecodesAsChainResponse(data)
                /\ chain_response_from_json(data).receiver = p
            request_for(me) ==
                /\ DecodesAsLocalChainRequest(data)
                /\ (local_chain_request_from_json(data).from_peer_id = p) = me
        IN  /\ (DecodesAsChainResponse(data) /\ ~response_for_me /\ request_for(TRUE)) =>
                  response_channel[p] =
                      pre.response_channel
                          \o <<[blocks |-> pre.blocks, ml_blocks |-> pre.ml_blocks,
                                receiver |-> event.msg.source]>>
            /\ (~response_for_me /\ request_for(FALSE) /\ DecodesAsBlock(data)
                /\ pre.blocks /= <<>>) =>
                  blocks[p] =
                      IF is_general_block_valid(block_from_json(data),
                                                Last(pre.blocks)) = "true"
                      THEN pre.blocks \o <<block_from_json(data)>>
                      ELSE pre.blocks

\* the last step handled a payload that decodes as none of the four shapes
HandledUnrecognized ==
    /\ event.op = "inject_event"
    /\ ~DecodesAsChainResponse(event.msg.data)
    /\ ~DecodesAsLocalChainRequest(event.msg.data)
    /\ ~DecodesAsBlock(event.msg.data)
    /\ ~DecodesAsMlBlock(event.msg.data)

\* C19: a payload that decodes as none of ChainResponse, LocalChainRequest,
\* general block or ml block is ignored: both chains are unchanged, nothing is
\* emitted on the response channel, and the node keeps running.
C19_UnrecognizedIgnored ==
    HandledUnrecognized =>
        /\ blocks[event.peer] = event.pre.blocks
        /\ ml_blocks[event.peer] = event.pre.ml_blocks
        /\ response_channel[event.peer] = event.pre.response_channel
        /\ status[event.peer] = "running"

\* a block without its nonce reached a node that had mined a block or holds a
\* response not yet published
C19_Witness ==
    /\ HandledUnrecognized
    /\ event.msg.topic = BLOCK_TOPIC
    /\ Len(event.msg.data) = 5
    /\ Len(blocks[event.peer]) + Len(ml_blocks[event.peer])
           + Len(response_channel[event.peer]) = 3

\* C20: under the non-padded, byte-by-byte binary rendering a digest's
\* rendering starts with "00" exactly when its first two bytes are zero and with
\* "01" exactly when its first byte is zero and its second is not; no digest
\* carries both prefixes and one whose first byte is not zero carries neither.
C20_PrefixesReadTheFirstTwoBytes ==
    event.op = "hash_to_binary_representation" =>
        LET general == starts_with(event.ret, GENERAL_DIFFICULTY_PREFIX)
            ml == starts_with(event.ret, ML_DIFFICULTY_PREFIX)
        IN  /\ general <=> (event.hash[1] = 0 /\ event.hash[2] = 0)
            /\ ml <=> (event.hash[1] = 0 /\ event.hash[2] /= 0)
            /\ ~(general /\ ml)
            /\ event.hash[1] /= 0 => ~general /\ ~ml

\* a zero byte rendered as one digit in front of a byte of eight digits
C20_Witness ==
    /\ event.op = "hash_to_binary_representation"
    /\ event.hash = <<0, 128, 255>>
    /\ event.ret = <<"0", "1", "0", "0", "0", "0", "0", "0", "0",
                     "1", "1", "1", "1", "1", "1", "1", "1">>

====
